---- MODULE Spec2Model ----
(***************************************************************************)
(* Model of the Strapi upload provider for Azure blob storage.             *)
(*                                                                         *)
(* The repository holds two builds of the provider:                        *)
(*   "index"   src/src/index.ts      no containerAccessType in its Config, *)
(*                                   exposes getSignedUrl and isPrivate;   *)
(*   "part001" src/unnamed/part_001  carries containerAccessType and signs *)
(*                                   the URL at upload time.               *)
(* Strings are sequences of tokens; the token " " is whitespace.  The      *)
(* storage service (one container, its blobs) is the environment.          *)
(***************************************************************************)
EXTENDS Integers, Sequences, FiniteSets, TLC

VARIABLES
    build,              \* which of the two source files is running
    providerOptions,    \* the raw configuration the host passed to init
    config,             \* the normalized configuration held by the adapter
    createState,        \* the createIfNotExists promise started by init
    unhandledRejection, \* a promise rejected with no handler attached
    containerExists,    \* storage: the container is there
    containerAccess,    \* storage: blobPublicAccess of the container
    blobs,              \* storage: keys of the objects in the container
    fileUrl,            \* file.url of every descriptor
    op,                 \* per descriptor: the call in flight or last ended
    written,            \* history: an upload of the descriptor stored its object
    urlWriter,          \* history: the handler that last assigned file.url
    ipPc,               \* isPrivate(): position
    ipResult,           \* isPrivate(): value returned or error thrown
    ipCreates,          \* isPrivate(): createIfNotExists calls of the current call
    today               \* the clock, in days

vars == << build, providerOptions, config, createState, unhandledRejection,
           containerExists, containerAccess, blobs, fileUrl, op, written,
           urlWriter, ipPc, ipResult, ipCreates, today >>

----------------------------------------------------------------------------
(* Bounds *)

\* isPrivate() recurses without a cap; the model stops it here.
MaxIsPrivateCreates == 2

\* last day the clock reaches
MaxDay == 1

----------------------------------------------------------------------------
(* Optional values and strings *)

Undefined == [isString |-> FALSE, val |-> <<>>]

Str(s) == [isString |-> TRUE, val |-> s]

WS == " "

RECURSIVE TrimStart(_)
TrimStart(s) ==
    IF s # <<>> /\ Head(s) = WS THEN TrimStart(Tail(s)) ELSE s

RECURSIVE TrimEnd(_)
TrimEnd(s) ==
    IF s # <<>> /\ s[Len(s)] = WS THEN TrimEnd(SubSeq(s, 1, Len(s) - 1)) ELSE s

\* String.prototype.trim
Trim(s) == TrimEnd(TrimStart(s))

trimParam(input) == IF input.isString THEN Trim(input.val) ELSE <<>>

StartsWith(s, p) == Len(p) <= Len(s) /\ SubSeq(s, 1, Len(p)) = p

\* positions at which pat occurs in s
Occurrences(s, pat) ==
    { i \in 1..(Len(s) - Len(pat) + 1) : SubSeq(s, i, i + Len(pat) - 1) = pat }

Min(S) == CHOOSE x \in S : \A y \in S : x <= y

\* String.prototype.replace with a string pattern: the first occurrence only
Replace(s, pat, rep) ==
    IF Occurrences(s, pat) = {} THEN s
    ELSE LET i == Min(Occurrences(s, pat))
         IN SubSeq(s, 1, i - 1) \o rep \o SubSeq(s, i + Len(pat), Len(s))

----------------------------------------------------------------------------
(* File descriptors *)

Files == {"f1"}

\* hash, ext of the descriptors the host passes
StrapiFile(f) == [hash |-> <<"h1">>, ext |-> <<".png">>]

\* an object of the container that is not the descriptor's
OtherKey == <<"assets", "/", "h0", ".bin">>

getFileName(path, file) == trimParam(Str(path)) \o <<"/">> \o file.hash \o file.ext

----------------------------------------------------------------------------
(* Configuration *)

Builds == {"index", "part001"}

DefaultServiceBaseURL(account) ==
    <<"https://">> \o account \o <<".blob.core.windows.net">>

\* the configurations the host may pass (config/plugins.js)
RawConfigs ==
    [ account : {Str(<<"acct", " ">>)},
      accountKey : {Str(<<"key">>)},
      serviceBaseURL : {Undefined, Str(<<" ", "http://localhost:10000/acct">>)},
      containerName : {Str(<<" ", "media">>)},
      defaultPath : {Str(<<" ", "assets", " ">>)},
      cdnBaseURL : {Undefined, Str(<<" ", "https://cdn.example.com">>)},
      createContainerIfNotExists : {"undefined", "false"},
      containerAccessType : {Undefined, Str(<<"private">>), Str(<<"blob">>)} ]

\* a || b on strings: the empty string is falsy
OrElse(a, b) == IF a # <<>> THEN a ELSE b

\* the object literal init assigns to config
init(b, raw) ==
    [ containerName |-> trimParam(raw.containerName),
      account |-> trimParam(raw.account),
      accountKey |-> trimParam(raw.accountKey),
      createContainerIfNotExists |->
          IF raw.createContainerIfNotExists = "undefined" THEN TRUE
          ELSE raw.createContainerIfNotExists = "true",
      defaultPath |-> trimParam(raw.defaultPath),
      cdnBaseURL |-> trimParam(raw.cdnBaseURL),
      containerAccessType |->
          IF b = "part001" THEN raw.containerAccessType ELSE Undefined,
      serviceBaseURL |->
          OrElse(trimParam(raw.serviceBaseURL),
                 DefaultServiceBaseURL(trimParam(raw.account))) ]

----------------------------------------------------------------------------
(* URLs *)

\* containerClient.getBlockBlobClient(filename).url / getBlobClient(filename).url
ClientUrl(cfg, f) ==
    cfg.serviceBaseURL \o <<"/">> \o cfg.containerName \o <<"/">>
        \o getFileName(cfg.defaultPath, StrapiFile(f))

\* new Date(3000, 0), in days from day 0 of the clock
Year3000Day == 355440

\* the query string of a shared access signature
SasQuery(permissions, expiresOn) ==
    <<"?", "sp=", permissions, "&se=", ToString(expiresOn), "&sig">>

generateSasUrl(url, permissions, expiresOn) ==
    url \o SasQuery(permissions, expiresOn)

\* handleUpload that never asks for a signature
UploadUrlUnsigned(b, cfg, f) == ClientUrl(cfg, f)

\* url of handleUpload: signed when the access type is 'private'
UploadUrl(b, cfg, f) ==
    IF b = "part001" /\ cfg.containerAccessType = Str(<<"private">>)
    THEN generateSasUrl(ClientUrl(cfg, f), "r", Year3000Day)
    ELSE ClientUrl(cfg, f)

\* handleUpload that forgets the CDN rewrite
UploadFileUrlNoCdn(b, cfg, f) == UploadUrl(b, cfg, f)

\* the value handleUpload assigns to file.url
UploadFileUrl(b, cfg, f) ==
    IF cfg.cdnBaseURL # <<>>
    THEN Replace(UploadUrl(b, cfg, f), cfg.serviceBaseURL, cfg.cdnBaseURL)
    ELSE UploadUrl(b, cfg, f)

\* the value handleDelete assigns to file.url
DeleteFileUrl(cfg, f) == ClientUrl(cfg, f)

\* access option of createIfNotExists in makeBlobServiceClient
CreateAccess(b, cfg) ==
    IF b = "part001"
       /\ cfg.containerAccessType.isString
       /\ cfg.containerAccessType # Str(<<"private">>)
    THEN cfg.containerAccessType.val[1]
    ELSE "none"

----------------------------------------------------------------------------
(* State *)

NoOp == [kind |-> "none", status |-> "none"]

Pending(kind) == [kind |-> kind, status |-> "pending"]

Ended(kind, status) == [kind |-> kind, status |-> status]

\* what a call of isPrivate() has produced: nothing yet, a boolean, an Error
NoResult == [value |-> "none", message |-> <<>>]

Returned(b) == [value |-> IF b THEN "true" ELSE "false", message |-> <<>>]

Threw(message) == [value |-> "none", message |-> message]

\* a descriptor takes a new call when none is pending on it
Free(f) == op[f].status # "pending"

Key(f) == getFileName(config.defaultPath, StrapiFile(f))

\* an Error that does not name the storage account
ContainerMissingMessageNoAccount(cfg) ==
    <<"upload provider error : container ">> \o cfg.containerName
        \o <<" does not exist.">>

\* the message of the Error isPrivate throws
ContainerMissingMessage(cfg) ==
    <<"upload provider error : container ">> \o cfg.containerName
        \o <<" does not exist. Either use createContainerIfNotExists or create the container manually in ">>
        \o cfg.account \o <<" storage account.">>

\* init: normalize the configuration, then makeBlobServiceClient starts the
\* container creation without awaiting it and the adapter is returned
Init ==
    /\ build \in Builds
    /\ providerOptions \in RawConfigs
    /\ config = init(build, providerOptions)
    /\ createState =
           IF config.createContainerIfNotExists THEN "pending" ELSE "none"
    /\ unhandledRejection = FALSE
    /\ \E c \in { <<FALSE, "none", {}>>, <<TRUE, "none", {}>>,
                   <<TRUE, "none", {OtherKey}>>, <<TRUE, "blob", {OtherKey}>> } :
           /\ containerExists = c[1]
           /\ containerAccess = c[2]
           /\ blobs = c[3]
    /\ fileUrl = [f \in Files |-> Undefined]
    /\ op = [f \in Files |-> NoOp]
    /\ written = [f \in Files |-> FALSE]
    /\ urlWriter = [f \in Files |-> "none"]
    /\ ipPc = "idle"
    /\ ipResult = NoResult
    /\ ipCreates = 0
    /\ today = 0

cfgVars == << build, providerOptions, config >>

storageVars == << containerExists, containerAccess, blobs >>

fileVars == << fileUrl, op, written, urlWriter >>

ipVars == << ipPc, ipResult, ipCreates >>

----------------------------------------------------------------------------
(* makeBlobServiceClient: the promise of createIfNotExists settles *)

\* .then(log) with no rejection handler: a rejection is left unhandled
makeBlobServiceClientSettles ==
    /\ createState = "pending"
    /\ \E fault \in BOOLEAN :
        IF fault
        THEN /\ createState' = "rejected"
             /\ unhandledRejection' = TRUE
             /\ UNCHANGED storageVars
        ELSE /\ unhandledRejection' = unhandledRejection
             /\ IF containerExists
                THEN /\ createState' = "alreadyExisted"
                     /\ UNCHANGED storageVars
                ELSE /\ createState' = "created"
                     /\ containerExists' = TRUE
                     /\ containerAccess' = CreateAccess(build, config)
                     /\ blobs' = {}
    /\ UNCHANGED << cfgVars, fileVars, ipVars, today >>

----------------------------------------------------------------------------
(* handleUpload *)

\* handleUpload that leaves file.url alone until the write has completed
handleUploadUrlAfterWrite(kind, f) ==
    /\ Free(f)
    /\ op' = [op EXCEPT ![f] = Pending(kind)]
    /\ UNCHANGED << cfgVars, createState, unhandledRejection, storageVars,
                    fileUrl, urlWriter, written, ipVars, today >>

\* up to the await of client.uploadStream: file.url is assigned, the write
\* is requested
handleUpload(kind, f) ==
    /\ Free(f)
    /\ fileUrl' = [fileUrl EXCEPT ![f] = Str(UploadFileUrl(build, config, f))]
    /\ urlWriter' = [urlWriter EXCEPT ![f] = "upload"]
    /\ op' = [op EXCEPT ![f] = Pending(kind)]
    /\ UNCHANGED << cfgVars, createState, unhandledRejection, storageVars,
                    written, ipVars, today >>

upload(f) == handleUpload("upload", f)

uploadStream(f) == handleUpload("uploadStream", f)

\* an upload that creates the missing container and writes again
handleUploadSettlesRetry(f) ==
    /\ op[f].status = "pending"
    /\ op[f].kind \in {"upload", "uploadStream"}
    /\ containerExists' = TRUE
    /\ containerAccess' = containerAccess
    /\ blobs' = blobs \cup {Key(f)}
    /\ written' = [written EXCEPT ![f] = TRUE]
    /\ op' = [op EXCEPT ![f] = Ended(op[f].kind, "ok")]
    /\ UNCHANGED << cfgVars, createState, unhandledRejection, fileUrl,
                    urlWriter, ipVars, today >>

\* the await of client.uploadStream settles: the service stored the object,
\* or the error is thrown to the caller
handleUploadSettles(f) ==
    /\ op[f].status = "pending"
    /\ op[f].kind \in {"upload", "uploadStream"}
    /\ \E fault \in BOOLEAN :
        IF fault
        THEN /\ op' = [op EXCEPT ![f] = Ended(op[f].kind, "TransportError")]
             /\ UNCHANGED << blobs, written >>
        ELSE IF ~containerExists
        THEN /\ op' = [op EXCEPT ![f] = Ended(op[f].kind, "ContainerNotFound")]
             /\ UNCHANGED << blobs, written >>
        ELSE /\ blobs' = blobs \cup {Key(f)}
             /\ written' = [written EXCEPT ![f] = TRUE]
             /\ op' = [op EXCEPT ![f] = Ended(op[f].kind, "ok")]
    /\ UNCHANGED << cfgVars, createState, unhandledRejection, containerExists,
                    containerAccess, fileUrl, urlWriter, ipVars, today >>

----------------------------------------------------------------------------
(* handleDelete *)

\* up to the await of client.deleteIfExists
handleDelete(f) ==
    /\ Free(f)
    /\ op' = [op EXCEPT ![f] = Pending("delete")]
    /\ UNCHANGED << cfgVars, createState, unhandledRejection, storageVars,
                    fileUrl, written, urlWriter, ipVars, today >>

\* a key built without the extension
DeleteKeyNoExt(f) == trimParam(Str(config.defaultPath)) \o <<"/">> \o StrapiFile(f).hash

\* the key handleDelete addresses
DeleteKey(f) == getFileName(config.defaultPath, StrapiFile(f))

\* client.delete(): a missing blob is an error
deleteStrict(present) == IF present THEN "ok" ELSE "BlobNotFound"

\* outcome of client.deleteIfExists() in an existing container: a missing
\* blob is reported as succeeded = false, not as an error
deleteIfExists(present) == "ok"

\* deleteIfExists settles (a missing container is an error), then file.url
\* is assigned
handleDeleteSettles(f) ==
    /\ op[f] = Pending("delete")
    /\ \E fault \in BOOLEAN :
        LET status == IF fault THEN "TransportError"
                      ELSE IF ~containerExists THEN "ContainerNotFound"
                      ELSE deleteIfExists(DeleteKey(f) \in blobs)
        IN /\ op' = [op EXCEPT ![f] = Ended("delete", status)]
           /\ IF status = "ok"
              THEN /\ blobs' = blobs \ {DeleteKey(f)}
                   /\ fileUrl' = [fileUrl EXCEPT
                                     ![f] = Str(DeleteFileUrl(config, f))]
                   /\ urlWriter' = [urlWriter EXCEPT ![f] = "delete"]
              ELSE UNCHANGED << blobs, fileUrl, urlWriter >>
    /\ UNCHANGED << cfgVars, createState, unhandledRejection, containerExists,
                    containerAccess, written, ipVars, today >>

----------------------------------------------------------------------------
(* getSignedUrl and isPrivate, the capabilities of src/index.ts *)

\* the { url } getSignedUrl returns: expiresOn is one day after now
getSignedUrl(cfg, f, now) == generateSasUrl(ClientUrl(cfg, f), "r", now + 1)

\* the host calls isPrivate()
isPrivate ==
    /\ build = "index"
    /\ ipPc \in {"idle", "returned", "threw"}
    /\ ipPc' = "exists"
    /\ ipResult' = NoResult
    /\ ipCreates' = 0
    /\ UNCHANGED << cfgVars, createState, unhandledRejection, storageVars,
                    fileVars, today >>

\* await container.exists() settles and the branch is taken
isPrivateExists ==
    /\ ipPc = "exists"
    /\ \E fault \in BOOLEAN :
        IF fault
        THEN /\ ipPc' = "threw"
             /\ ipResult' = Threw(<<"TransportError">>)
        ELSE IF containerExists
        THEN /\ ipPc' = "getProperties"
             /\ ipResult' = ipResult
        ELSE IF config.createContainerIfNotExists
        THEN /\ ipCreates < MaxIsPrivateCreates
             /\ ipPc' = "createIfNotExists"
             /\ ipResult' = ipResult
        ELSE /\ ipPc' = "threw"
             /\ ipResult' = Threw(ContainerMissingMessage(config))
    /\ UNCHANGED << cfgVars, createState, unhandledRejection, storageVars,
                    fileVars, ipCreates, today >>

\* await container.getProperties() settles: blobPublicAccess === undefined
isPrivateGetProperties ==
    /\ ipPc = "getProperties"
    /\ \E fault \in BOOLEAN :
        IF fault
        THEN /\ ipPc' = "threw"
             /\ ipResult' = Threw(<<"TransportError">>)
        ELSE IF ~containerExists
        THEN /\ ipPc' = "threw"
             /\ ipResult' = Threw(<<"ContainerNotFound">>)
        ELSE /\ ipPc' = "returned"
             /\ ipResult' = Returned(containerAccess = "none")
    /\ UNCHANGED << cfgVars, createState, unhandledRejection, storageVars,
                    fileVars, ipCreates, today >>

\* await container.createIfNotExists() settles, then isPrivate calls itself
isPrivateCreate ==
    /\ ipPc = "createIfNotExists"
    /\ \E fault \in BOOLEAN :
        IF fault
        THEN /\ ipPc' = "threw"
             /\ ipResult' = Threw(<<"TransportError">>)
             /\ UNCHANGED << storageVars, ipCreates >>
        ELSE /\ ipPc' = "exists"
             /\ ipResult' = ipResult
             /\ ipCreates' = ipCreates + 1
             /\ IF containerExists
                THEN UNCHANGED storageVars
                ELSE /\ containerExists' = TRUE
                     /\ containerAccess' = "none"
                     /\ blobs' = {}
    /\ UNCHANGED << cfgVars, createState, unhandledRejection, fileVars,
                    today >>

----------------------------------------------------------------------------
(* Environment *)

\* the container is deleted on the service by somebody else
ContainerDeleted ==
    /\ containerExists
    /\ containerExists' = FALSE
    /\ containerAccess' = "none"
    /\ blobs' = {}
    /\ UNCHANGED << cfgVars, createState, unhandledRejection, fileVars,
                    ipVars, today >>

\* a day passes
Tick ==
    /\ today < MaxDay
    /\ today' = today + 1
    /\ UNCHANGED << cfgVars, createState, unhandledRejection, storageVars,
                    fileVars, ipVars >>

----------------------------------------------------------------------------

Next ==
    \/ makeBlobServiceClientSettles
    \/ \E f \in Files : upload(f)
    \/ \E f \in Files : uploadStream(f)
    \/ \E f \in Files : handleUploadSettles(f)
    \/ \E f \in Files : handleDelete(f)
    \/ \E f \in Files : handleDeleteSettles(f)
    \/ isPrivate
    \/ isPrivateExists
    \/ isPrivateGetProperties
    \/ isPrivateCreate
    \/ ContainerDeleted
    \/ Tick

Spec == Init /\ [][Next]_vars

----------------------------------------------------------------------------
(* Properties *)

Private == Str(<<"private">>)

\* the object key and the object path the specification gives for the
\* descriptor: <trimmed default path>/<hash><ext> in container media
ExpectedKey == <<"assets", "/", "h1", ".png">>

ExpectedPath == <<"/", "media", "/">> \o ExpectedKey

SasLen == Len(SasQuery("r", 0))

\* u is base + path + a signature query with read permission and an expiry
\* later than now
IsSignedFor(u, base, path, now) ==
    /\ Len(u) = Len(base) + Len(path) + SasLen
    /\ SubSeq(u, 1, Len(base) + Len(path)) = base \o path
    /\ \E e \in {Year3000Day} \cup (0..(MaxDay + 1)) :
          /\ e > now
          /\ SubSeq(u, Len(u) - SasLen + 1, Len(u)) = SasQuery("r", e)

Uploads == {"upload", "uploadStream"}

\* the host part handleUpload is to write: the CDN when one is configured
WrittenBase == IF config.cdnBaseURL # <<>> THEN config.cdnBaseURL
               ELSE config.serviceBaseURL

\* C1 as stated: whenever the host configured containerAccessType
\* 'private', the URL an upload wrote to the descriptor is a signed URL (read
\* permission, expiry in the future) for the derived key and differs from
\* the plain URL of the object.
C1_SignedWhenConfiguredPrivate ==
    \A f \in Files :
        (providerOptions.containerAccessType = Private /\ urlWriter[f] = "upload")
            => /\ IsSignedFor(fileUrl[f].val, WrittenBase, ExpectedPath, today)
               /\ fileUrl[f].val # ClientUrl(config, f)

\* C1 amended: whenever the normalized configuration of the adapter carries
\* containerAccessType 'private' (the build of part_001; init of index.ts
\* drops the field), the URL an upload wrote to the descriptor is a signed
\* URL (read permission, expiry in the future) for the derived key and
\* differs from the plain URL of the object.
C1_SignedWhenPrivate ==
    \A f \in Files :
        (config.containerAccessType = Private /\ urlWriter[f] = "upload")
            => /\ IsSignedFor(fileUrl[f].val, WrittenBase, ExpectedPath, today)
               /\ fileUrl[f].val # ClientUrl(config, f)

\* C1 witness: an upload of a private adapter has completed, a day later
C1_Witness ==
    \E f \in Files :
        /\ config.containerAccessType = Private
        /\ op[f] = Ended("upload", "ok")
        /\ urlWriter[f] = "upload"
        /\ today > 0

\* the configuration init yields when the host spells out 'private'
ConfigAsPrivate ==
    init(build, [providerOptions EXCEPT !.containerAccessType = Private])

\* C2: with containerAccessType omitted the adapter behaves as if 'private'
\* had been configured: the normalized access type is 'private' and the URL
\* an upload writes is the signed URL a 'private' adapter writes.
C2_DefaultsToPrivate ==
    (build = "part001" /\ providerOptions.containerAccessType = Undefined)
        => \A f \in Files :
              urlWriter[f] = "upload"
                  => /\ fileUrl[f].val = UploadFileUrl(build, ConfigAsPrivate, f)
                     /\ fileUrl[f].val # ClientUrl(config, f)

\* C3 as stated: with a CDN base URL configured, every URL written to a
\* descriptor, by upload, uploadStream or delete, starts with the CDN base
\* URL and not with the storage service base URL.
C3_CdnOnEveryWrittenUrl ==
    \A f \in Files :
        (config.cdnBaseURL # <<>> /\ urlWriter[f] # "none")
            => /\ StartsWith(fileUrl[f].val, <<"https://cdn.example.com">> \o ExpectedPath)
               /\ ~StartsWith(fileUrl[f].val, config.serviceBaseURL)

\* C3 amended: with a CDN base URL configured, every URL written to a
\* descriptor by upload or uploadStream, for private and public access
\* alike, starts with the CDN base URL and not with the storage service base
\* URL (delete writes the storage URL of the object).
C3_CdnOnUploadUrl ==
    \A f \in Files :
        (config.cdnBaseURL # <<>> /\ urlWriter[f] = "upload")
            => /\ StartsWith(fileUrl[f].val, <<"https://cdn.example.com">> \o ExpectedPath)
               /\ ~StartsWith(fileUrl[f].val, config.serviceBaseURL)

\* C3 witness: a private adapter behind a CDN has written the URL of an
\* uploadStream call
C3_Witness ==
    \E f \in Files :
        /\ config.cdnBaseURL # <<>>
        /\ config.containerAccessType = Private
        /\ op[f].kind = "uploadStream"
        /\ urlWriter[f] = "upload"

\* C4: a call of isPrivate() on a missing container with auto-creation
\* enabled ends after at most one create-and-recheck, whatever the service
\* does in between: it never creates a second time, and after one creation
\* it is about to recheck, or has returned or thrown.
C4_OneCreateAndRecheck ==
    /\ ipCreates <= 1
    /\ ipCreates = 1 => ipPc \in {"exists", "getProperties", "returned", "threw"}

\* C5: once an upload of a descriptor has completed and a later delete of
\* the same descriptor has completed, no object is stored at the derived key
\* <defaultPath>/<hash><ext>.
C5_DeleteAfterUploadLeavesNoObject ==
    \A f \in Files :
        (written[f] /\ op[f] = Ended("delete", "ok")) => ExpectedKey \notin blobs

\* C5 witness: upload then delete have completed beside a foreign object
C5_Witness ==
    \E f \in Files :
        /\ written[f]
        /\ op[f] = Ended("delete", "ok")
        /\ OtherKey \in blobs

\* C6: a delete served by an existing container that holds no object at the
\* derived key completes without an error and leaves the stored objects as
\* they were (transport failures apart).
C6_DeleteOfAbsentKeyIsNoError ==
    [][ \A f \in Files :
          ( /\ op[f] = Pending("delete")
            /\ op'[f] # op[f]
            /\ containerExists
            /\ ExpectedKey \notin blobs
            /\ op'[f].status # "TransportError" )
          => (op'[f] = Ended("delete", "ok") /\ blobs' = blobs) ]_vars

\* C6 witness: a delete has completed for a descriptor never uploaded, and
\* the foreign object is still there
C6_Witness ==
    \E f \in Files :
        /\ ~written[f]
        /\ op[f] = Ended("delete", "ok")
        /\ blobs = {OtherKey}

Contains(s, pat) == Occurrences(s, pat) # {}

\* C7: when isPrivate() finds the container missing and auto-creation is
\* disabled it throws an Error whose message names the container and the
\* account, and no step of isPrivate() changes the container or its objects.
C7_MissingContainerError ==
    [][ /\ ( /\ ipPc = "exists"
             /\ ipPc' # ipPc
             /\ ~containerExists
             /\ ~config.createContainerIfNotExists
             /\ ipResult'.message # <<"TransportError">> )
           => /\ ipPc' = "threw"
              /\ ipResult'.value = "none"
              /\ Contains(ipResult'.message, <<"media">>)
              /\ Contains(ipResult'.message, <<"acct">>)
        /\ ( /\ ~config.createContainerIfNotExists
             /\ << ipPc, ipResult, ipCreates >> # << ipPc', ipResult', ipCreates' >> )
           => storageVars' = storageVars ]_vars

\* C7 witness: isPrivate() has thrown its own Error, the container is missing
C7_Witness ==
    /\ ipPc = "threw"
    /\ ~config.createContainerIfNotExists
    /\ ~containerExists
    /\ Contains(ipResult.message, <<"media">>)

\* C8: a failure of the container creation started by init is swallowed: no
\* rejection escapes to the host.
C8_CreationFailureSwallowed ==
    createState = "rejected" => ~unhandledRejection

C10_UploadBeforeContainerIsRejected ==
    [][ \A f \in Files :
          ( /\ op[f].status = "pending"
            /\ op[f].kind \in Uploads
            /\ op'[f] # op[f]
            /\ ~containerExists )
          => /\ op'[f].status \in {"ContainerNotFound", "TransportError"}
             /\ op'[f].kind = op[f].kind
             /\ storageVars' = storageVars ]_vars

\* C10 witness: init has returned, the creation it started is still pending,
\* and an upload called meanwhile has been rejected for the missing container
C10_Witness ==
    \E f \in Files :
        /\ createState = "pending"
        /\ ~containerExists
        /\ op[f] = Ended("upload", "ContainerNotFound")

====
